---- MODULE Spec2Model ----
(***************************************************************************)
(* A model of the document synchronisation engine of moss-desktop          *)
(* (src/rm_api/storage/v3.py): the tree resolver get_documents_using_root, *)
(* the content store make_files_request and the upload pipeline            *)
(* fetch_with_retries / put_file_async.                                    *)
(*                                                                         *)
(* Hashes are modelled as sequences of strings: a blob's hash is the       *)
(* sequence that spells its content (sha256 taken as collision free), and  *)
(* the hash of an index is the concatenation of its items' hashes in the   *)
(* order they are fed to sha256.                                           *)
(***************************************************************************)
EXTENDS Integers, Sequences, FiniteSets, TLC

VARIABLES
    \* ---- tree resolver: the api object and the remote it reads
    document_collections,   \* api.document_collections: uuid -> DocumentCollection
    documents,              \* api.documents: uuid -> Document
    root_index,             \* the remote root index: sequence of uuids, in listed order
    remote,                 \* the remote file-set of each uuid of the root index
    \* ---- tree resolver: the locals of one run of get_documents_using_root
    pc,                     \* "idle", "walk", "delete", "done"
    files,                  \* the decoded root index (File entries)
    i, j, k,                \* the loop indices as progress() reads them
    total,
    deleted_document_collections_list,
    deleted_documents_list,
    document_collections_with_items,
    badly_hashed,
    progress_calls,         \* the calls progress(done, total) made by this run
    root_fetch,             \* how line 266 ended in this run: "decoded", "missing", "raised"
    root_recovery,          \* <<>> or <<what lines 268-284 did in this run>>
    uploaded,               \* the argument of api.upload_many_documents in this run
    \* ---- tree resolver: history kept for the properties
    pre_collections,        \* api.document_collections when the run started
    pre_documents,          \* api.documents when the run started
    prev_maps,              \* the maps left by the preceding run, when it ran on this remote
    clean,                  \* the last run completed on this remote, without repair
    \* ---- the hash check and the item order of one per-document index
    index_file,             \* the File of the root index: its uuid and declared hash
    index_content,          \* the per-document index as listed (file_content)
    index_matches,          \* <<matches_hash>> once line 301 has run
    index_sorted,           \* <<file_content>> once line 303 has sorted it
    \* ---- content store: make_storage_request, make_files_request and its callers
    sync_file_path,         \* api.sync_file_path is set
    use_new_sync,           \* api.use_new_sync
    cache_files,            \* the keys that have a file under api.sync_file_path
    lru,                    \* the lru_cache of make_files_request, oldest first
    network,                \* the requests api.session.request has sent, in order,
                            \* each with whether the call that sent it raised
    last_call,              \* the last call of a request function and its outcome
    \* ---- upload pipeline: put_file_async and fetch_with_retries
    retry_strategy,         \* api.retry_strategy: total, backoff_factor
    up_pc,                  \* "idle", "primary", "google", "returned", "closed"
    attempt,                \* the local attempt of fetch_with_retries
    request_log,            \* the requests of this upload: url, range header, answer
    sleeps,                 \* the waits asyncio.sleep was called with, in order
    resets,                 \* the calls of data_adapter.reset()
    stream_pos,             \* where the body stream stands: "start" or "read"
    response,               \* the response the last fetch_with_retries returned
    content_length,         \* len(data)
    sync_event,             \* the DocumentSyncProgress: total, tasks added, finished
    restarts,               \* the depth of the expired-token recursion
    up_result,              \* <<>> or <<what put_file_async returned>>
    put_file_result,        \* <<>> or <<what put_file returned to its caller>>
    \* ---- the caller of sync: the Loader screen and the threads it starts
    loader,                 \* the fields of the Loader and where its frame stands
    sync_threads            \* the threads start_syncing has started, in order

syncVars == <<document_collections, documents, root_index, remote, pc, files, i, j, k,
              total, deleted_document_collections_list, deleted_documents_list,
              document_collections_with_items, badly_hashed, progress_calls, uploaded,
              pre_collections, pre_documents, prev_maps, clean, root_fetch, root_recovery>>

indexVars == <<index_file, index_content, index_matches, index_sorted>>

storeVars == <<sync_file_path, use_new_sync, cache_files, lru, network, last_call>>

uploadVars == <<retry_strategy, up_pc, attempt, request_log, sleeps, resets, stream_pos,
                response, content_length, sync_event, restarts, up_result,
                put_file_result>>

loaderVars == <<loader, sync_threads>>

vars == <<syncVars, indexVars, storeVars, uploadVars, loaderVars>>

\* What the steps of one component leave alone.
notSync == <<indexVars, storeVars, uploadVars, loaderVars>>
notIndex == <<syncVars, storeVars, uploadVars, loaderVars>>
notStore == <<syncVars, indexVars, uploadVars, loaderVars>>
notUpload == <<syncVars, indexVars, storeVars, loaderVars>>
notLoader == <<syncVars, indexVars, storeVars, uploadVars>>

----------------------------------------------------------------------------
(* The components a specification does not exercise stand still *)

IndexParked ==
    /\ index_file = <<>> /\ index_content = <<>>
    /\ index_matches = <<>> /\ index_sorted = <<>>

StoreParked ==
    /\ sync_file_path = FALSE /\ use_new_sync = FALSE /\ cache_files = {}
    /\ lru = <<>> /\ network = <<>> /\ last_call = <<>>

UploadParked ==
    /\ retry_strategy = <<>> /\ up_pc = "idle" /\ attempt = 0
    /\ request_log = <<>> /\ sleeps = <<>> /\ resets = 0 /\ stream_pos = "start"
    /\ response = <<>> /\ content_length = 0 /\ sync_event = <<>>
    /\ restarts = 0 /\ up_result = <<>> /\ put_file_result = <<>>

LoaderParked ==
    /\ loader = <<>> /\ sync_threads = <<>>

----------------------------------------------------------------------------
(* Universe of the tree resolver *)

UUIDS == {"a", "b"}
NoParent == ""
Parents == UUIDS \cup {NoParent}

\* The parents the metadata of uuid u may name: the root, and for "b" also "a".
\* (Two uuids are alike to the code, so a tree in which "a" is the child is the
\* same case with the names swapped; a collection is never its own ancestor.)
ParentChoices(u) == IF u = "b" THEN {NoParent, "a"} ELSE {NoParent}

EXTENSION_ORDER == <<"content", "metadata", "rm">>

\* The blob of a .metadata file, spelled by its hash: <<"meta", type, parent>>.
MetadataTypes == {"CollectionType", "DocumentType", "TemplateType"}
MetadataHashes ==
    { <<"meta", t, p>> : t \in MetadataTypes, p \in Parents } \cup { <<"meta", "garbled", NoParent>> }

\* models.Metadata(get_file_contents(hash), hash): raises on a blob that does
\* not parse, and otherwise carries the type and the parent.
MetadataParses(hash) == hash[2] # "garbled"
MetadataType(hash) == hash[2]
MetadataParent(hash) == hash[3]

\* The blob of a .content file: a JSON object, a text that is no JSON object,
\* or a blob whose read raises.
ContentKinds == {"dict", "text", "unreadable"}

\* The blob of a per-document index: the lines of an index ("lines"), or a
\* blob that make_files_request decodes to a JSON object ("object"), on which
\* line 249 of get_file raises.
IndexKinds == {"lines", "object"}

\* A remote file-set: its index, its .content and .metadata blobs and whether
\* the hash the root index declares for it is the hash of its index ("good")
\* or not ("stale").
\* The walk reads the metadata only behind a .content that is a JSON object, the
\* parent only of a collection or a document, and the result of the hash check
\* only for a document: the file-sets that differ in a field nothing reads are
\* represented by one of them.
FileSets ==
    { fs \in [index : IndexKinds, content : ContentKinds, metadata : MetadataHashes,
               declared : {"good", "stale"}] :
        /\ fs.index # "lines" => fs.content = "text"
        /\ fs.content # "dict" => fs.metadata = <<"meta", "DocumentType", NoParent>>
        /\ MetadataType(fs.metadata) \notin {"CollectionType", "DocumentType"}
              => MetadataParent(fs.metadata) = NoParent
        /\ ~(fs.content = "dict" /\ MetadataType(fs.metadata) = "DocumentType")
              => fs.declared = "good" }

----------------------------------------------------------------------------
(* Helpers *)

Range(s) == { s[n] : n \in 1..Len(s) }

RECURSIVE Flatten(_)
Flatten(ss) == IF ss = <<>> THEN <<>> ELSE Head(ss) \o Flatten(Tail(ss))

\* Insert the pair x = <<key, item>> into the sorted sequence s of pairs, after
\* every pair whose key is <= the key of x.
RECURSIVE InsertByKey(_, _)
InsertByKey(x, s) ==
    IF s = <<>> THEN <<x>>
    ELSE IF x[1] < Head(s)[1] THEN <<x>> \o s
    ELSE <<Head(s)>> \o InsertByKey(x, Tail(s))

RECURSIVE SortPairs(_)
SortPairs(s) ==
    IF s = <<>> THEN <<>>
    ELSE InsertByKey(s[Len(s)], SortPairs(SubSeq(s, 1, Len(s) - 1)))

\* Python's sorted(s, key=...), a stable sort; keys[n] is the key of s[n].
SortedByKey(s, keys) ==
    LET sorted == SortPairs([n \in 1..Len(s) |-> <<keys[n], s[n]>>])
    IN  [n \in 1..Len(s) |-> sorted[n][2]]

Remove(f, u) == [v \in (DOMAIN f) \ {u} |-> f[v]]
Put(f, u, x) == [v \in (DOMAIN f) \cup {u} |-> IF v = u THEN x ELSE f[v]]

----------------------------------------------------------------------------
(* The index codec as the tree resolver uses it *)

\* An item of a per-document index is a File whose uuid is "<stem>.<ext>".
Item(stem, ext, hash) == [stem |-> stem, ext |-> ext, hash |-> hash]

\* get_file_item_order: the position of the extension in EXTENSION_ORDER,
\* 0-based, and -1 for any other extension.
get_file_item_order(item) ==
    IF \E n \in 1..Len(EXTENSION_ORDER) : EXTENSION_ORDER[n] = item.ext
    THEN (CHOOSE n \in 1..Len(EXTENSION_ORDER) : EXTENSION_ORDER[n] = item.ext) - 1
    ELSE -1

\* The rank of a uuid string in the order of Python's str comparison, for the
\* uuids of the model: stems first, then extensions, both alphabetical.
StemRank(stem) == CASE stem = "a" -> 0 [] stem = "b" -> 1 [] OTHER -> 2
ExtRank(ext) ==
    CASE ext = "content" -> 0 [] ext = "metadata" -> 1 [] ext = "pagedata" -> 2
      [] ext = "rm" -> 3 [] OTHER -> 4
UuidRank(stem, ext) == StemRank(stem) * 5 + ExtRank(ext)

\* sha256 over the hashes of the items, fed in the order given.
IndexHash(items) == Flatten([n \in 1..Len(items) |-> items[n].hash])

\* Lines 297-300: sorted(file_content, key=lambda item: file.uuid): every item
\* gets the key of the enclosing file, so the stable sort keeps the listed order.
expected_hash(file, file_content) ==
    IndexHash(SortedByKey(file_content,
                          [n \in 1..Len(file_content) |-> UuidRank(file.uuid, "")]))

\* Line 301.
matches_hash(file, file_content) == file.hash = expected_hash(file, file_content)

\* Line 303: file_content.sort(key=get_file_item_order).
sort_file_content(file_content) ==
    SortedByKey(file_content,
                [n \in 1..Len(file_content) |-> get_file_item_order(file_content[n])])

----------------------------------------------------------------------------
(* The remote, as the reads of one run see it *)

\* The per-document index of uuid u, as the service lists it: by item uuid.
FileContent(u, fs) ==
    << Item(u, "content", <<"content", fs.content>>),
       Item(u, "metadata", fs.metadata),
       Item(u, "pagedata", <<"pagedata">>) >>

\* The hash the root index declares for the file-set.
FileHash(u, fs) ==
    IF fs.declared = "good" THEN IndexHash(FileContent(u, fs)) ELSE <<"stale">>

\* The root index as get_file decodes it: one File per listed uuid.
RootFiles ==
    [n \in 1..Len(root_index) |->
        [uuid |-> root_index[n], hash |-> FileHash(root_index[n], remote[root_index[n]])]]

\* get_file_contents of a .content blob: the JSON object, or not.
ContentIsDict(item) == item.hash = <<"content", "dict">>
ContentRaises(item) == item.hash = <<"content", "unreadable">>

\* models.DocumentCollection(tags, metadata, uuid): has_items starts False.
DocumentCollection(tags, metadata, uuid) ==
    [uuid |-> uuid, metadata |-> metadata, parent |-> MetadataParent(metadata),
     tags |-> tags, has_items |-> FALSE]

\* models.Document(api, content, metadata, files, uuid): provision starts False.
Document(content, metadata, uuid) ==
    [uuid |-> uuid, metadata |-> metadata, parent |-> MetadataParent(metadata),
     content |-> content, provision |-> FALSE]

----------------------------------------------------------------------------
(* get_documents_using_root: the body of the per-file loop, lines 293-369 *)

\* parent_document_collection.has_items = True, when the parent is a known collection.
MarkParent(dc, parent) ==
    IF parent \in DOMAIN dc THEN [dc EXCEPT ![parent].has_items = TRUE] ELSE dc

\* Lines 313-323: the .metadata item of a known collection with an unchanged hash.
KeepCollection(s, file) ==
    LET old == s.dc[file.uuid]
        reset == IF old.uuid \notin s.with_items
                 THEN [s.dc EXCEPT ![file.uuid].has_items = FALSE]
                 ELSE s.dc
    IN  [s EXCEPT !.del_dc = @ \ {file.uuid},
                  !.dc = MarkParent(reset, old.parent),
                  !.with_items = IF old.parent \in DOMAIN reset
                                 THEN @ \cup {old.parent} ELSE @]

\* Lines 324-332: the .metadata item of a known document with an unchanged hash.
KeepDocument(s, file) ==
    LET old == s.docs[file.uuid]
    IN  [s EXCEPT !.del_docs = @ \ {file.uuid},
                  !.dc = MarkParent(@, old.parent),
                  !.with_items = @ \cup {old.parent}]

\* Lines 337-357: a metadata blob of type CollectionType.
StoreCollection(s, file, item) ==
    LET tags == <<>>
        new == DocumentCollection(tags, item.hash, file.uuid)
        withNew == Put(s.dc, file.uuid,
                       IF file.uuid \in s.with_items
                       THEN [new EXCEPT !.has_items = TRUE] ELSE new)
    IN  [s EXCEPT !.dc = MarkParent(withNew, new.parent),
                  !.with_items = @ \cup {new.parent},
                  !.del_dc = @ \ {file.uuid},
                  !.brk = TRUE]

\* A Document stored in place of the Collection known under its uuid.
StoreDocument_DropsCollection(s, file, item, matches) ==
    LET new == Document(s.content, item.hash, file.uuid)
    IN  [s EXCEPT !.docs = Put(@, file.uuid, new),
                  !.badly = IF ~matches THEN Append(@, file.uuid) ELSE @,
                  !.dc = MarkParent(Remove(@, file.uuid), new.parent),
                  !.with_items = @ \cup {new.parent},
                  !.del_docs = @ \ {file.uuid},
                  !.brk = TRUE]

\* Lines 358-369: a metadata blob of type DocumentType.
StoreDocument(s, file, item, matches) ==
    LET new == Document(s.content, item.hash, file.uuid)
    IN  [s EXCEPT !.docs = Put(@, file.uuid, new),
                  !.badly = IF ~matches THEN Append(@, file.uuid) ELSE @,
                  !.dc = MarkParent(@, new.parent),
                  !.with_items = @ \cup {new.parent},
                  !.del_docs = @ \ {file.uuid},
                  !.brk = TRUE]

\* The branch on the metadata type with every type but CollectionType taken
\* for a document.
MetadataItem_AnyTypeIsDocument(s, file, item, matches) ==
    IF file.uuid \in DOMAIN s.dc /\ s.dc[file.uuid].metadata = item.hash
        THEN KeepCollection(s, file)
    ELSE IF file.uuid \notin DOMAIN s.dc /\ file.uuid \in DOMAIN s.docs
            /\ s.docs[file.uuid].metadata = item.hash
        THEN KeepDocument(s, file)
    ELSE IF ~MetadataParses(item.hash)
        THEN s
    ELSE IF MetadataType(item.hash) = "CollectionType"
        THEN StoreCollection(s, file, item)
    ELSE StoreDocument(s, file, item, matches)

\* Lines 312-369: one item whose uuid is "<file.uuid>.metadata".
MetadataItem(s, file, item, matches) ==
    IF file.uuid \in DOMAIN s.dc /\ s.dc[file.uuid].metadata = item.hash
        THEN KeepCollection(s, file)
    ELSE IF file.uuid \notin DOMAIN s.dc /\ file.uuid \in DOMAIN s.docs
            /\ s.docs[file.uuid].metadata = item.hash
        THEN KeepDocument(s, file)
    ELSE IF ~MetadataParses(item.hash)
        THEN s
    ELSE IF MetadataType(item.hash) = "CollectionType"
        THEN StoreCollection(s, file, item)
    ELSE IF MetadataType(item.hash) = "DocumentType"
        THEN StoreDocument(s, file, item, matches)
    ELSE s

\* Lines 305-311: one item whose uuid is "<file.uuid>.content".
ContentItem(s, item) ==
    IF ContentRaises(item) \/ ~ContentIsDict(item)
    THEN [s EXCEPT !.brk = TRUE]
    ELSE [s EXCEPT !.content = "dict"]

\* Lines 304-369: the body of the loop over the items, for one item.
ProcessItem(s, file, item, matches) ==
    LET s1 == IF item.stem = file.uuid /\ item.ext = "content"
              THEN ContentItem(s, item) ELSE s
    IN  IF s1.brk THEN s1
        ELSE IF item.stem = file.uuid /\ item.ext = "metadata"
             THEN MetadataItem(s1, file, item, matches)
             ELSE s1

\* Lines 304-369: the loop over the sorted items, left at the first break.
RECURSIVE ItemLoop(_, _, _, _)
ItemLoop(s, file, items, matches) ==
    IF items = <<>> \/ s.brk THEN s
    ELSE ItemLoop(ProcessItem(s, file, Head(items), matches), file, Tail(items), matches)

\* Lines 293-369: one top-level file.
FileResult(file, file_content) ==
    ItemLoop([dc |-> document_collections, docs |-> documents,
              del_dc |-> deleted_document_collections_list,
              del_docs |-> deleted_documents_list,
              with_items |-> document_collections_with_items,
              badly |-> badly_hashed, content |-> "none", brk |-> FALSE],
             file, sort_file_content(file_content), matches_hash(file, file_content))

----------------------------------------------------------------------------
(* get_documents_using_root: the run, one action per step *)

Idle == pc \in {"idle", "done"}

\* The locals of a run that has not started.
NoRun ==
    /\ files = <<>> /\ i = 0 /\ j = 0 /\ k = 0 /\ total = 0
    /\ deleted_document_collections_list = {}
    /\ deleted_documents_list = {}
    /\ document_collections_with_items = {}
    /\ badly_hashed = <<>>
    /\ progress_calls = <<>>
    /\ uploaded = <<>>
    /\ root_fetch = "none" /\ root_recovery = <<>>
    /\ pre_collections = <<>> /\ pre_documents = <<>>

SyncInit ==
    /\ document_collections = <<>>
    /\ documents = <<>>
    /\ root_index = <<>>
    /\ remote = <<>>
    /\ pc = "idle"
    /\ NoRun
    /\ prev_maps = <<>>
    /\ clean = FALSE

\* get_documents_using_root is left: its locals are gone.
ForgetRun_Locals ==
    /\ pc' = "idle"
    /\ files' = <<>> /\ i' = 0 /\ j' = 0 /\ k' = 0 /\ total' = 0
    /\ deleted_document_collections_list' = {}
    /\ deleted_documents_list' = {}
    /\ document_collections_with_items' = {}
    /\ badly_hashed' = <<>>
    /\ progress_calls' = <<>>
    /\ uploaded' = <<>>
    /\ pre_collections' = <<>> /\ pre_documents' = <<>>
    /\ prev_maps' = <<>>
    /\ clean' = FALSE

ForgetRun ==
    /\ ForgetRun_Locals
    /\ root_fetch' = "none" /\ root_recovery' = <<>>

\* progress(done, total)
progress(done, tot) == progress_calls' = Append(progress_calls, <<done, tot>>)

\* models.make_hash(b'3\n'), line 280: the hash of the constant minimal index.
EmptyRootHash == <<"3\n">>

\* How get_file(api, root) of line 266 may end: the index decodes; the store
\* has no blob to give (make_files_request returns None on an invalid hash)
\* and get_file returns (-1, []) at line 246; or the call raises.
RootFetches == {"decoded", "missing", "raised"}

\* update_root(api, new_root): the root pointer of the remote moves to the
\* new root blob, whose index lists nothing.
UpdatedRoot == [root_index |-> <<>>, remote |-> <<>>]

\* Lines 268-283: the except branch builds the root file of the blob "3\n",
\* calls put_file on it (whose outcome nothing reads) and update_root.
RootRecovery(put_ok) ==
    << [blob |-> "3\n", uploaded |-> put_ok, new_root |-> EmptyRootHash] >>

\* Lines 285-290: the delete candidates are the keys of the two maps and
\* total = len(files); the bookkeeping of a run that starts on fs.
BeginWalk(fs, on_listed_root) ==
    /\ pc' = "walk"
    /\ files' = fs
    /\ deleted_document_collections_list' = DOMAIN document_collections
    /\ deleted_documents_list' = DOMAIN documents
    /\ document_collections_with_items' = {}
    /\ badly_hashed' = <<>>
    /\ total' = Len(fs)
    /\ i' = 0 /\ j' = 0 /\ k' = 0
    /\ progress_calls' = <<>>
    /\ uploaded' = <<>>
    /\ pre_collections' = document_collections
    /\ pre_documents' = documents
    /\ prev_maps' = IF clean /\ on_listed_root
                    THEN <<document_collections, documents>> ELSE <<>>
    /\ clean' = FALSE

\* Lines 264-290: the root index is fetched and decoded, or the except branch
\* replaces the root; then the walk starts.  After the except branch line 284
\* reads the new root outside the try: the uploaded blob decodes to no entries,
\* a blob that did not arrive is missing or makes the read raise.
StartSync ==
    /\ Idle
    /\ \E fetch \in RootFetches, put_ok \in BOOLEAN, refetch \in RootFetches :
        /\ root_fetch' = fetch
        /\ IF fetch = "decoded"
           THEN /\ put_ok /\ refetch = "decoded"
                /\ root_recovery' = <<>>
                /\ BeginWalk(RootFiles, TRUE)
                /\ UNCHANGED <<root_index, remote>>
           ELSE IF fetch = "missing"
           THEN /\ put_ok /\ refetch = "decoded"
                /\ root_recovery' = <<>>
                /\ BeginWalk(<<>>, FALSE)
                /\ UNCHANGED <<root_index, remote>>
           ELSE /\ put_ok <=> refetch = "decoded"
                /\ root_index' = UpdatedRoot.root_index
                /\ remote' = UpdatedRoot.remote
                /\ IF refetch = "raised"
                   THEN /\ ForgetRun_Locals
                        /\ root_recovery' = <<>>
                   ELSE /\ root_recovery' = RootRecovery(put_ok)
                        /\ BeginWalk(<<>>, FALSE)
    /\ UNCHANGED <<document_collections, documents>>
    /\ UNCHANGED notSync

\* Lines 292-370: one pass of the loop over the top-level files.  i counts
\* the files already processed, which is the index enumerate() hands out.
ProcessFile ==
    /\ pc = "walk"
    /\ i < Len(files)
    /\ remote[files[i + 1].uuid].index = "lines"
    /\ LET file == files[i + 1]
           r == FileResult(file, FileContent(file.uuid, remote[file.uuid]))
       IN  /\ document_collections' = r.dc
           /\ documents' = r.docs
           /\ deleted_document_collections_list' = r.del_dc
           /\ deleted_documents_list' = r.del_docs
           /\ document_collections_with_items' = r.with_items
           /\ badly_hashed' = r.badly
    /\ progress(i + 1, total)
    /\ i' = i + 1
    /\ UNCHANGED <<root_index, remote, pc, files, j, k, total, uploaded,
                   pre_collections, pre_documents, prev_maps, clean,
                   root_fetch, root_recovery>>
    /\ UNCHANGED notSync

\* Line 293: get_file raises on the index of the next file (line 249 on a
\* blob that is no index; a read the server refuses ends the same way, at
\* line 101) and nothing in get_documents_using_root catches it: the run ends
\* there, with the maps as the files processed so far have left them.
GetFileRaises ==
    /\ pc = "walk"
    /\ i < Len(files)
    /\ remote[files[i + 1].uuid].index = "object"
    /\ ForgetRun
    /\ UNCHANGED <<document_collections, documents, root_index, remote>>
    /\ UNCHANGED notSync

\* Lines 371-378: the else of the for loop runs whenever the loop ends without
\* break, which is always; then the repair upload and the new total.
FinishWalk ==
    /\ pc = "walk"
    /\ i = Len(files)
    /\ i' = 0
    /\ uploaded' = badly_hashed
    /\ total' = total + Cardinality(deleted_document_collections_list)
                      + Cardinality(deleted_documents_list)
    /\ pc' = "delete"
    /\ UNCHANGED <<document_collections, documents, root_index, remote, files, j, k,
                   deleted_document_collections_list, deleted_documents_list,
                   document_collections_with_items, badly_hashed, progress_calls,
                   pre_collections, pre_documents, prev_maps, clean,
                   root_fetch, root_recovery>>
    /\ UNCHANGED notSync

\* A pass of the loop that reports progress and deletes nothing.
DeleteCollection_KeepsRecord ==
    /\ pc = "delete"
    /\ \E uuid \in deleted_document_collections_list :
        /\ document_collections' = document_collections
        /\ deleted_document_collections_list' = deleted_document_collections_list \ {uuid}
    /\ progress(i + j + 1, total)
    /\ j' = j + 1
    /\ UNCHANGED <<documents, root_index, remote, pc, files, i, k, total,
                   deleted_documents_list, document_collections_with_items,
                   badly_hashed, uploaded, pre_collections, pre_documents, prev_maps, clean,
                   root_fetch, root_recovery>>
    /\ UNCHANGED notSync

\* Lines 380-382: one pass of the loop over deleted_document_collections_list.
\* The set holds the uuids the iteration has still to visit; a set is
\* visited in an order the program does not choose.
DeleteCollection ==
    /\ pc = "delete"
    /\ \E uuid \in deleted_document_collections_list :
        /\ document_collections' = Remove(document_collections, uuid)
        /\ deleted_document_collections_list' = deleted_document_collections_list \ {uuid}
    /\ progress(i + j + 1, total)
    /\ j' = j + 1
    /\ UNCHANGED <<documents, root_index, remote, pc, files, i, k, total,
                   deleted_documents_list, document_collections_with_items,
                   badly_hashed, uploaded, pre_collections, pre_documents, prev_maps, clean,
                   root_fetch, root_recovery>>
    /\ UNCHANGED notSync

\* The loop over deleted_documents_list without the test of the provision flag.
DeleteDocument_IgnoresProvision ==
    /\ pc = "delete"
    /\ deleted_document_collections_list = {}
    /\ \E uuid \in deleted_documents_list :
        /\ documents' = Remove(documents, uuid)
        /\ deleted_documents_list' = deleted_documents_list \ {uuid}
    /\ progress(i + 0 + k + 1, total)
    /\ j' = 0
    /\ k' = k + 1
    /\ UNCHANGED <<document_collections, root_index, remote, pc, files, i, total,
                   deleted_document_collections_list, document_collections_with_items,
                   badly_hashed, uploaded, pre_collections, pre_documents, prev_maps, clean,
                   root_fetch, root_recovery>>
    /\ UNCHANGED notSync

\* Lines 383-392: one pass of the loop over deleted_documents_list.  The loop
\* starts when the loop before it has ended, and that loop's else has set j = 0.
DeleteDocument ==
    /\ pc = "delete"
    /\ deleted_document_collections_list = {}
    /\ \E uuid \in deleted_documents_list :
        /\ documents' = IF uuid \in DOMAIN documents /\ ~documents[uuid].provision
                        THEN Remove(documents, uuid)
                        ELSE documents
        /\ deleted_documents_list' = deleted_documents_list \ {uuid}
    /\ progress(i + 0 + k + 1, total)
    /\ j' = 0
    /\ k' = k + 1
    /\ UNCHANGED <<document_collections, root_index, remote, pc, files, i, total,
                   deleted_document_collections_list, document_collections_with_items,
                   badly_hashed, uploaded, pre_collections, pre_documents, prev_maps, clean,
                   root_fetch, root_recovery>>
    /\ UNCHANGED notSync

\* Line 392: the last loop is over and get_documents_using_root returns.
FinishSync ==
    /\ pc = "delete"
    /\ deleted_document_collections_list = {}
    /\ deleted_documents_list = {}
    /\ pc' = "done"
    /\ j' = 0
    /\ clean' = (uploaded = <<>> /\ root_fetch = "decoded")
    /\ UNCHANGED <<document_collections, documents, root_index, remote, files, i, k,
                   total, deleted_document_collections_list, deleted_documents_list,
                   document_collections_with_items, badly_hashed, progress_calls,
                   uploaded, pre_collections, pre_documents, prev_maps,
                   root_fetch, root_recovery>>
    /\ UNCHANGED notSync

----------------------------------------------------------------------------
(* The collaborators of the tree resolver, between two runs *)

\* A writer of the remote stores the file-set of uuid u: in place when the root
\* index lists u, at the end of the root index otherwise.
RemotePut ==
    /\ Idle
    /\ \E u \in UUIDS, fs \in FileSets :
        /\ MetadataParent(fs.metadata) \in ParentChoices(u)
        /\ u \in DOMAIN remote => remote[u] # fs
        /\ remote' = Put(remote, u, fs)
        /\ root_index' = IF u \in DOMAIN remote THEN root_index ELSE Append(root_index, u)
    /\ ForgetRun
    /\ UNCHANGED <<document_collections, documents>>
    /\ UNCHANGED notSync

\* A writer of the remote deletes uuid u from the root index.
RemoteRemove ==
    /\ Idle
    /\ \E u \in DOMAIN remote :
        /\ remote' = Remove(remote, u)
        /\ root_index' = SelectSeq(root_index, LAMBDA v : v # u)
    /\ ForgetRun
    /\ UNCHANGED <<document_collections, documents>>
    /\ UNCHANGED notSync

\* The document editor creates a document locally: a Document under a uuid
\* nobody uses yet, with its provision flag set.
ProvisionDocument ==
    /\ Idle
    /\ \E u \in UUIDS, p \in Parents :
        /\ p \in ParentChoices(u)
        /\ u \notin DOMAIN documents
        /\ u \notin DOMAIN document_collections
        /\ u \notin DOMAIN remote
        /\ documents' = Put(documents, u,
              [Document("dict", <<"meta", "DocumentType", p>>, u) EXCEPT !.provision = TRUE])
    /\ ForgetRun
    /\ UNCHANGED <<document_collections, root_index, remote>>
    /\ UNCHANGED notSync

SyncNext ==
    \/ StartSync
    \/ ProcessFile
    \/ GetFileRaises
    \/ FinishWalk
    \/ DeleteCollection
    \/ DeleteDocument
    \/ FinishSync
    \/ RemotePut
    \/ RemoteRemove
    \/ ProvisionDocument

Init == SyncInit /\ IndexParked /\ StoreParked /\ UploadParked /\ LoaderParked
Next == SyncNext
Spec == Init /\ [][Next]_vars

----------------------------------------------------------------------------
(* Properties of the tree resolver *)

RootUuids == { files[n].uuid : n \in 1..Len(files) }

\* The file-set of a listed uuid reads without a failure: its .content is a
\* JSON object and its .metadata parses.
Parses(u) ==
    /\ remote[u].index = "lines"
    /\ remote[u].content = "dict"
    /\ MetadataParses(remote[u].metadata)
TypeOf(u) == MetadataType(remote[u].metadata)

\* C1: when a run has completed, every uuid that was a key of
\* api.document_collections or api.documents before the run and is not listed
\* in the root index is no longer a key of that map, except a Document whose
\* provision flag is set, which is still a key of api.documents.
C1_UnlistedUuidsRemoved ==
    pc = "done" =>
        /\ \A u \in DOMAIN pre_collections :
              u \notin RootUuids => u \notin DOMAIN document_collections
        /\ \A u \in DOMAIN pre_documents :
              u \notin RootUuids =>
                  IF pre_documents[u].provision
                  THEN u \in DOMAIN documents /\ documents[u] = pre_documents[u]
                  ELSE u \notin DOMAIN documents

\* A completed run that removed an unlisted uuid and kept an unlisted
\* provisioned Document.
C1_Witness ==
    /\ pc = "done"
    /\ \E u \in DOMAIN pre_documents :
          u \notin RootUuids /\ pre_documents[u].provision /\ u \in DOMAIN documents
    /\ \E u \in (DOMAIN pre_documents \cup DOMAIN pre_collections) :
          /\ u \notin RootUuids
          /\ u \notin DOMAIN documents
          /\ u \notin DOMAIN document_collections

\* C2: when a run has completed, the last call of progress has done = total.
C2_LastProgressReachesTotal ==
    (pc = "done" /\ progress_calls # <<>>) =>
        progress_calls[Len(progress_calls)][1] = progress_calls[Len(progress_calls)][2]

\* C3: the done argument of the successive calls of progress in one run never
\* decreases.
C3_ProgressNeverDecreases ==
    \A n \in 1..(Len(progress_calls) - 1) :
        progress_calls[n][1] <= progress_calls[n + 1][1]

\* C4: a run that follows a completed run on the same remote, with no repair
\* in either and nothing changed in between, leaves both maps as the first
\* run left them.
C4_SecondRunChangesNothing ==
    (pc = "done" /\ prev_maps # <<>> /\ uploaded = <<>>) =>
        <<document_collections, documents>> = prev_maps

\* C5: a completed run that started from empty maps, over a root index whose
\* file-sets all parse, holds exactly the listed uuids of type CollectionType
\* in api.document_collections and those of type DocumentType in api.documents,
\* so one entry per file-set when no type is unknown.
C5_FreshRunResolvesEveryFileSet ==
    (/\ pc = "done"
     /\ pre_collections = <<>> /\ pre_documents = <<>>
     /\ \A u \in RootUuids : Parses(u)) =>
        /\ DOMAIN document_collections = { u \in RootUuids : TypeOf(u) = "CollectionType" }
        /\ DOMAIN documents = { u \in RootUuids : TypeOf(u) = "DocumentType" }
        /\ (\A u \in RootUuids : TypeOf(u) \in {"CollectionType", "DocumentType"})
              => Cardinality(DOMAIN document_collections) + Cardinality(DOMAIN documents)
                    = Len(files)

\* A completed run from empty maps over two file-sets, a collection and a document.
C5_Witness ==
    /\ pc = "done"
    /\ pre_collections = <<>> /\ pre_documents = <<>>
    /\ Len(files) = 2
    /\ \A u \in RootUuids : Parses(u)
    /\ \E u \in RootUuids : TypeOf(u) = "CollectionType" /\ u \in DOMAIN document_collections
    /\ \E u \in RootUuids : TypeOf(u) = "DocumentType" /\ u \in DOMAIN documents

\* C6: when a run has completed, every processed document file-set whose
\* declared hash differs from the recomputed hash was passed to
\* api.upload_many_documents in that run, whether or not its metadata hash
\* changed since the previous run.
C6_EveryBadlyHashedDocumentRepaired ==
    pc = "done" =>
        \A n \in 1..Len(files) :
            LET u == files[n].uuid
            IN  (/\ Parses(u)
                 /\ TypeOf(u) = "DocumentType"
                 /\ ~matches_hash(files[n], FileContent(u, remote[u])))
                    => u \in Range(uploaded)

\* Something in the file-set of u fails to decode: its index, its .content
\* or its .metadata.
FailsToDecode(u) ==
    \/ remote[u].index # "lines"
    \/ remote[u].content # "dict"
    \/ ~MetadataParses(remote[u].metadata)

\* C13: a decode or parse failure on a top-level entry never aborts the run:
\* the step of the walk that meets such an entry stays in the walk, moves on
\* to the next entry and calls progress once.
C13_DecodeFailureNeverAborts ==
    [][(pc = "walk" /\ i < Len(files) /\ FailsToDecode(files[i + 1].uuid)) =>
          /\ pc' = "walk"
          /\ i' = i + 1
          /\ Len(progress_calls') = Len(progress_calls) + 1]_vars

\* C14: a run whose fetch of the root index failed, by an exception or by a
\* missing result, has put the constant index "3\n" as a new root blob and
\* advanced the root pointer to the hash of that blob.
C14_RootFailureRebuildsRoot ==
    (pc # "idle" /\ root_fetch \in {"missing", "raised"}) =>
        /\ root_recovery # <<>>
        /\ root_recovery[1].blob = "3\n"
        /\ root_recovery[1].new_root = EmptyRootHash
        /\ root_index = UpdatedRoot.root_index

\* The file-set of u reads without a failure and its type is no longer t.
Retyped(u, t) == Parses(u) /\ TypeOf(u) # t

\* C15: when a run has completed, every uuid the root index lists that was a
\* key of api.document_collections or of api.documents before the run is a
\* key of the same map, whatever happened while its entry was processed (an
\* entry whose metadata now names another type is not held against the run).
C15_ListedUuidsKept ==
    pc = "done" =>
        \A u \in RootUuids :
            /\ (u \in DOMAIN pre_collections /\ ~Retyped(u, "CollectionType"))
                  => u \in DOMAIN document_collections
            /\ (u \in DOMAIN pre_documents /\ ~Retyped(u, "DocumentType"))
                  => u \in DOMAIN documents

\* C16: when a run has completed, a listed entry whose metadata type is
\* neither CollectionType nor DocumentType has a record in either map exactly
\* if it had one before the run.
C16_UnknownTypeChangesNothing ==
    pc = "done" =>
        \A u \in RootUuids :
            (Parses(u) /\ TypeOf(u) \notin {"CollectionType", "DocumentType"}) =>
                /\ u \in DOMAIN document_collections <=> u \in DOMAIN pre_collections
                /\ u \in DOMAIN documents <=> u \in DOMAIN pre_documents

\* C22: every call of progress in one run passes the same total.
C22_ProgressTotalFixed ==
    \A n, m \in 1..Len(progress_calls) :
        progress_calls[n][2] = progress_calls[m][2]

\* The root index lists u with a .metadata entry whose hash is the hash of
\* the metadata of the record rec.
SameMetadata(u, rec) ==
    /\ remote[u].index = "lines"
    /\ remote[u].metadata = rec.metadata

\* C23: when a run has completed, a listed uuid whose .metadata entry has the
\* hash of the record known for it before the run still has that record in
\* its map, changed at most in has_items.
C23_UnchangedMetadataKeepsRecord ==
    pc = "done" =>
        \A u \in RootUuids :
            /\ (u \in DOMAIN pre_collections /\ SameMetadata(u, pre_collections[u])) =>
                  /\ u \in DOMAIN document_collections
                  /\ [document_collections[u] EXCEPT !.has_items = FALSE]
                        = [pre_collections[u] EXCEPT !.has_items = FALSE]
            /\ (u \in DOMAIN pre_documents /\ u \notin DOMAIN pre_collections
                   /\ SameMetadata(u, pre_documents[u])) =>
                  /\ u \in DOMAIN documents
                  /\ documents[u] = pre_documents[u]

\* The records that name c as their parent.
ChildrenOf(c) ==
    { u \in DOMAIN document_collections : document_collections[u].parent = c }
    \cup { u \in DOMAIN documents : documents[u].parent = c }

\* C25: when a run has completed, and no document is a local provision, a
\* Collection has has_items set exactly if some record in the two maps names
\* it as its parent.
C25_HasItemsIffChild ==
    (pc = "done" /\ \A u \in DOMAIN documents : ~documents[u].provision) =>
        \A c \in DOMAIN document_collections :
            document_collections[c].has_items <=> ChildrenOf(c) # {}

\* C33: when the recovery of the root has advanced the root pointer to the
\* new "3\n" blob, the upload of that blob had succeeded.
C33_RootAdvancedOnlyAfterUpload ==
    root_recovery # <<>> => root_recovery[1].uploaded

\* C34: while the top-level files are walked no record leaves
\* api.document_collections or api.documents, whether the step processes a
\* file or ends the run with the exception of a read.
C34_NothingDeletedDuringWalk ==
    [][pc = "walk" =>
          /\ DOMAIN document_collections \subseteq DOMAIN document_collections'
          /\ DOMAIN documents \subseteq DOMAIN documents']_vars

\* A run that has inserted or replaced the record of its first file, holds a
\* delete candidate that the deletion loops would remove and that is still in
\* its map, and is about to raise on the index of its second file.
C34_Witness ==
    /\ pc = "walk"
    /\ i = 1
    /\ Len(files) = 2
    /\ remote[files[2].uuid].index = "object"
    /\ \/ /\ files[1].uuid \in DOMAIN documents
          /\ files[1].uuid \in DOMAIN pre_documents
                => documents[files[1].uuid] # pre_documents[files[1].uuid]
       \/ /\ files[1].uuid \in DOMAIN document_collections
          /\ files[1].uuid \in DOMAIN pre_collections
                => document_collections[files[1].uuid].metadata
                     # pre_collections[files[1].uuid].metadata
    /\ \/ \E u \in deleted_document_collections_list : u \in DOMAIN document_collections
       \/ \E u \in deleted_documents_list :
             u \in DOMAIN documents /\ ~documents[u].provision

\* The run read a root index that decoded to no entries.
EmptyRootRun == root_fetch = "decoded" /\ files = <<>>

\* C35: a run on a root index without entries ends with both maps empty.
C35_EmptyRootEmptiesMaps ==
    (pc = "done" /\ EmptyRootRun) =>
        /\ document_collections = <<>>
        /\ documents = <<>>

\* C35 as amended: a run on a root index without entries does not end in an
\* exception, and when it has completed api.document_collections is empty
\* and api.documents holds nothing but Documents whose provision flag is set.
C35_EmptyRootKeepsOnlyProvisions ==
    [][(pc \in {"walk", "delete"} /\ EmptyRootRun) =>
          /\ pc' # "idle"
          /\ pc' = "done" =>
                /\ document_collections' = <<>>
                /\ \A u \in DOMAIN documents' : documents'[u].provision]_vars

\* A completed run on an empty root index that removed a record known
\* before it and kept a provisioned Document.
C35_Witness ==
    /\ pc = "done"
    /\ EmptyRootRun
    /\ \E u \in DOMAIN pre_collections \cup DOMAIN pre_documents :
          u \notin DOMAIN document_collections \cup DOMAIN documents
    /\ \E u \in DOMAIN documents : documents[u].provision

----------------------------------------------------------------------------
(* The hash check of one file-set, lines 293-303, on any listing *)

\* The longest per-document index the specification lists.
MaxItems == 3

\* The extensions an item of the index may carry; each item has its own hash.
ItemExts == {"content", "metadata", "pagedata", "rm", "epub"}
IndexItem(ext) == Item("a", ext, <<ext>>)

\* Every order of every set of at most MaxItems items.
RECURSIVE Listings(_)
Listings(exts) ==
    IF exts = {} THEN { <<>> }
    ELSE UNION { { <<IndexItem(e)>> \o rest : rest \in Listings(exts \ {e}) } : e \in exts }

AllListings ==
    UNION { Listings(exts) : exts \in { x \in SUBSET ItemExts : Cardinality(x) <= MaxItems } }

\* The items in the order of their uuids: the order the hash invariant names.
ByUuid(items) ==
    SortedByKey(items, [n \in 1..Len(items) |-> UuidRank(items[n].stem, items[n].ext)])

\* The root index declares the hash of the uuid-sorted items, or a stale hash.
IndexInit ==
    /\ index_content \in AllListings
    /\ \E h \in { IndexHash(ByUuid(index_content)), <<"stale">> } :
          index_file = [uuid |-> "a", hash |-> h]
    /\ index_matches = <<>>
    /\ index_sorted = <<>>

\* Lines 296-301.
CheckHash ==
    /\ index_matches = <<>>
    /\ index_matches' = << matches_hash(index_file, index_content) >>
    /\ UNCHANGED <<index_file, index_content, index_sorted>>
    /\ UNCHANGED notIndex

\* Line 303.
SortFileContent ==
    /\ index_matches # <<>>
    /\ index_sorted = <<>>
    /\ index_sorted' = << sort_file_content(index_content) >>
    /\ UNCHANGED <<index_file, index_content, index_matches>>
    /\ UNCHANGED notIndex

IndexNext == CheckHash \/ SortFileContent

InitIndex == IndexInit /\ SyncInit /\ StoreParked /\ UploadParked /\ LoaderParked
SpecIndex == InitIndex /\ [][IndexNext]_vars

\* The same items in another order.
IsReordering(a, b) ==
    /\ Len(a) = Len(b)
    /\ Range(a) = Range(b)

\* C7: the result of the hash check of a file-set is the same for every order
\* in which the per-document index lists its items.
C7_HashCheckIgnoresListingOrder ==
    index_matches # <<>> =>
        \A other \in AllListings :
            IsReordering(other, index_content)
                => matches_hash(index_file, other) = index_matches[1]

\* An extension that EXTENSION_ORDER names.
KnownExtension(item) == item.ext \in Range(EXTENSION_ORDER)

\* C24: the items of a per-document index are processed content, metadata,
\* rm, then every other extension: no item with an unknown extension comes
\* before a content, metadata or rm item.
C24_UnknownExtensionsLast ==
    index_sorted # <<>> =>
        \A n, m \in 1..Len(index_sorted[1]) :
            (n < m /\ KnownExtension(index_sorted[1][m]))
                => KnownExtension(index_sorted[1][n])

----------------------------------------------------------------------------
(* The content store: make_files_request, lines 60-114 *)

\* The calls of make_files_request one behaviour makes.
MaxCalls == 3

\* functools.lru_cache without arguments keeps the 128 most recent calls.
LRU_MAXSIZE == 128

Keys == {"k"}

\* The arguments of one call: (api, method, file, data=None, binary, use_cache,
\* enforce_cache).  get_file and get_file_contents pass "GET", check_file_exists
\* passes "HEAD" and leaves enforce_cache at False; a HEAD reads no body, and
\* its calls are listed with binary at its default.
CallArgs ==
    { a \in [method : {"GET", "HEAD"}, file : Keys, binary : BOOLEAN,
             use_cache : BOOLEAN, enforce_cache : BOOLEAN] :
        a.method = "HEAD" => (~a.enforce_cache /\ ~a.binary) }

\* What the server may answer: a status, and whether the body is the
\* invalid-hash message.  A GET follows redirects; the stream request of a HEAD
\* (allow_redirects=False) sees them.
Responses(head) ==
    { r \in [status : {200, 301, 302, 400, 404}, invalid_hash : BOOLEAN] :
        /\ r.invalid_hash => r.status = 400
        /\ r.status \in {301, 302} => head }

\* response.ok
Ok(r) == r.status < 400

\* What a call returns.
ReturnsNone == <<"None">>
ReturnsBool(b) == IF b THEN <<"True">> ELSE <<"False">>
ReturnsBody(a) == << IF a.binary THEN "bytes" ELSE "decoded", a.file >>

\* The entry of the lru_cache for the arguments a, or <<>>.
LruLookup(a) ==
    IF \E n \in 1..Len(lru) : lru[n].args = a
    THEN << lru[CHOOSE n \in 1..Len(lru) : lru[n].args = a] >>
    ELSE <<>>

\* The lru_cache after a hit on a: the entry becomes the most recent.
LruTouch(a) ==
    SelectSeq(lru, LAMBDA e : e.args # a) \o LruLookup(a)

\* A wrapper that memoizes nothing.
LruStore_Forgets(a, result) == lru

\* The lru_cache after a miss on a that returned result: the oldest entry
\* goes when the cache is full.
LruStore(a, result) ==
    LET grown == Append(lru, [args |-> a, result |-> result])
    IN  IF Len(grown) > LRU_MAXSIZE THEN Tail(grown) ELSE grown

\* A lookup that never finds the cache file.
CacheHit_NeverFinds(a, location) == FALSE

\* Line 73: use_cache and location and os.path.exists(location).
CacheHit(a, location) == a.use_cache /\ location /\ a.file \in cache_files

\* make_files_request without the early return of lines 86-88.
make_files_request_NoEnforce(a, r) ==
    LET head == a.method = "HEAD"
        location == sync_file_path
        outcome(result, raised, sent, wrote) ==
            [result |-> result, raised |-> raised, sent |-> sent, wrote |-> wrote]
    IN  IF CacheHit(a, location)
            THEN IF head THEN outcome(ReturnsBool(TRUE), FALSE, FALSE, FALSE)
                 ELSE outcome(ReturnsBody(a), FALSE, FALSE, FALSE)
        ELSE IF head /\ r.status \in {302, 404, 200}
            THEN outcome(ReturnsBool(r.status # 404), FALSE, TRUE, FALSE)
        ELSE IF r.invalid_hash
            THEN outcome(ReturnsNone, FALSE, TRUE, FALSE)
        ELSE IF ~Ok(r)
            THEN outcome(<<"Exception">>, TRUE, TRUE, FALSE)
        ELSE outcome(ReturnsBody(a), FALSE, TRUE, location)

\* Lines 64-114, the body of make_files_request for the arguments a when the
\* server would answer r: what it returns or that it raises, whether it sent
\* a request, and whether it wrote the cache file.
make_files_request(a, r) ==
    LET head == a.method = "HEAD"
        location == sync_file_path
        outcome(result, raised, sent, wrote) ==
            [result |-> result, raised |-> raised, sent |-> sent, wrote |-> wrote]
    IN  IF CacheHit(a, location)
            THEN IF head THEN outcome(ReturnsBool(TRUE), FALSE, FALSE, FALSE)
                 ELSE outcome(ReturnsBody(a), FALSE, FALSE, FALSE)
        ELSE IF a.enforce_cache
            THEN outcome(ReturnsNone, FALSE, FALSE, FALSE)
        ELSE IF head /\ r.status \in {302, 404, 200}
            THEN outcome(ReturnsBool(r.status # 404), FALSE, TRUE, FALSE)
        ELSE IF r.invalid_hash
            THEN outcome(ReturnsNone, FALSE, TRUE, FALSE)
        ELSE IF ~Ok(r)
            THEN outcome(<<"Exception">>, TRUE, TRUE, FALSE)
        ELSE outcome(ReturnsBody(a), FALSE, TRUE, location)

StoreInit ==
    /\ sync_file_path \in BOOLEAN
    /\ use_new_sync = FALSE
    /\ cache_files = {}
    /\ lru = <<>>
    /\ network = <<>>
    /\ last_call = <<>>

Calls == IF last_call = <<>> THEN 0 ELSE last_call[1].n

\* The request one call sent, as the log of the session keeps it.
Sent(fn, a, raised) == [fn |-> fn, args |-> a, raised |-> raised]

\* One call of make_files_request through its lru_cache wrapper.
MakeFilesRequest ==
    /\ Calls < MaxCalls
    /\ \E a \in CallArgs :
        IF LruLookup(a) # <<>>
        THEN /\ lru' = LruTouch(a)
             /\ last_call' = << [n |-> Calls + 1, fn |-> "make_files_request",
                                 args |-> a, hit |-> TRUE, status |-> 0,
                                 result |-> LruLookup(a)[1].result, raised |-> FALSE,
                                 sent |-> FALSE, wrote |-> FALSE,
                                 cached |-> a.file \in cache_files] >>
             /\ UNCHANGED <<cache_files, network>>
        ELSE \E r \in Responses(a.method = "HEAD") :
              LET o == make_files_request(a, r)
              IN  /\ o.sent \/ r = [status |-> 200, invalid_hash |-> FALSE]
                  /\ lru' = IF o.raised THEN lru ELSE LruStore(a, o.result)
                  /\ network' = IF o.sent
                                THEN Append(network, Sent("make_files_request", a, o.raised))
                                ELSE network
                  /\ cache_files' = IF o.wrote THEN cache_files \cup {a.file}
                                    ELSE cache_files
                  /\ last_call' = << [n |-> Calls + 1, fn |-> "make_files_request",
                                      args |-> a, hit |-> FALSE,
                                      status |-> IF o.sent THEN r.status ELSE 0,
                                      result |-> o.result, raised |-> o.raised,
                                      sent |-> o.sent, wrote |-> o.wrote,
                                      cached |-> a.file \in cache_files] >>
    /\ UNCHANGED <<sync_file_path, use_new_sync>>
    /\ UNCHANGED notStore

\* The arguments of one call of make_storage_request: (api, method, request,
\* data), and what the server may answer: a status, and for a 200 whether
\* the body is JSON.
StorageArgs == [method : {"GET"}, request : {"root"}]
StorageResponses ==
    { r \in [status : {200, 400, 500}, json : BOOLEAN] : r.json => r.status = 200 }

\* Lines 42-57, the body of make_storage_request when the server answers r:
\* what it returns or that it raises, and api.use_new_sync afterwards.
make_storage_request(a, r) ==
    IF r.status = 400
        THEN [result |-> <<"NewSyncRequired">>, raised |-> TRUE, use_new_sync |-> TRUE]
    ELSE IF r.status # 200
        THEN [result |-> ReturnsNone, raised |-> FALSE, use_new_sync |-> use_new_sync]
    ELSE [result |-> << IF r.json THEN "json" ELSE "text", a.request >>,
          raised |-> FALSE, use_new_sync |-> use_new_sync]

\* One call of make_storage_request.
MakeStorageRequest ==
    /\ Calls < MaxCalls
    /\ \E a \in StorageArgs, r \in StorageResponses :
        LET o == make_storage_request(a, r)
        IN  /\ use_new_sync' = o.use_new_sync
            /\ network' = Append(network, Sent("make_storage_request", a, o.raised))
            /\ last_call' = << [n |-> Calls + 1, fn |-> "make_storage_request",
                                args |-> a, hit |-> FALSE, status |-> r.status,
                                result |-> o.result, raised |-> o.raised,
                                sent |-> TRUE, wrote |-> FALSE, cached |-> FALSE] >>
    /\ UNCHANGED <<sync_file_path, cache_files, lru>>
    /\ UNCHANGED notStore

StoreNext == MakeFilesRequest \/ MakeStorageRequest

InitStore == StoreInit /\ SyncInit /\ IndexParked /\ UploadParked /\ LoaderParked
SpecStore == InitStore /\ [][StoreNext]_vars

\* C8: a call with enforce_cache set, for a key that has no cache file, sends
\* no request, returns None and does not raise.
C8_EnforcedCacheMissIsOffline ==
    (/\ last_call # <<>>
     /\ last_call[1].fn = "make_files_request"
     /\ last_call[1].args.enforce_cache
     /\ ~(sync_file_path /\ last_call[1].cached)) =>
        /\ ~last_call[1].sent
        /\ ~last_call[1].raised
        /\ last_call[1].result = ReturnsNone

\* An enforce_cache call for a key without a cache file, after an earlier call
\* went to the network.
C8_Witness ==
    /\ last_call # <<>>
    /\ last_call[1].fn = "make_files_request"
    /\ last_call[1].args.enforce_cache
    /\ last_call[1].args.use_cache
    /\ ~last_call[1].cached
    /\ network # <<>>
    /\ last_call[1].result = ReturnsNone

\* The requests make_files_request has sent, by their place in the log.
FilesRequests == { n \in 1..Len(network) : network[n].fn = "make_files_request" }

C18_Status400RaisesNewSyncRequired ==
    (last_call # <<>> /\ last_call[1].status = 400) =>
        /\ last_call[1].raised
        /\ last_call[1].result = <<"NewSyncRequired">>
        /\ use_new_sync

\* The last call was make_files_request with the method given.
LastFilesCall(method) ==
    /\ last_call # <<>>
    /\ last_call[1].fn = "make_files_request"
    /\ last_call[1].args.method = method

\* C26: a read with caching enabled, of a key whose cache file exists,
\* returns the content of the file, whatever calls came before it.
C26_CacheFileIsAuthoritative ==
    (LastFilesCall("GET") /\ last_call[1].args.use_cache /\ last_call[1].cached) =>
        /\ ~last_call[1].raised
        /\ last_call[1].result = ReturnsBody(last_call[1].args)

C28_ProbeReturnsBoolWithoutBody ==
    (LastFilesCall("HEAD") /\ ~last_call[1].hit) =>
        /\ ~last_call[1].wrote
        /\ last_call[1].result # ReturnsBody(last_call[1].args)
        /\ (last_call[1].args.use_cache /\ last_call[1].cached)
              => last_call[1].result = ReturnsBool(TRUE)
        /\ (last_call[1].sent /\ last_call[1].status \in {200, 301, 302})
              => last_call[1].result = ReturnsBool(TRUE)
        /\ (last_call[1].sent /\ last_call[1].status = 404)
              => last_call[1].result = ReturnsBool(FALSE)

----------------------------------------------------------------------------
(* The upload pipeline: fetch_with_retries and put_file_async, lines 117-230 *)

\* The largest retry_strategy.total and backoff_factor, the longest data and
\* the most expired-token answers one upload meets.
MaxRetries == 3
MaxBackoff == 1
MaxLength == 2
MaxRestarts == 2

\* FILES_URL.format(api.document_storage_uri, file.hash)
PrimaryUrl == "files"
\* The signed urls and the x-goog-content-length-range values a redirect names.
Locations == {"signed1", "signed2"}
Ranges == {"0,1", "0,2"}
NoRange == "absent"

\* retry_strategy.status_forcelist
RetryStatuses == {503}

RECURSIVE Pow2(_)
Pow2(n) == IF n = 0 THEN 1 ELSE 2 * Pow2(n - 1)

\* What one session.request may end in: a response (status, the headers of a
\* redirect, whether the body names an expired token), a timeout, or another
\* client error.  Only the request sent with allow_redirects=False sees a 302.
Answer(kind, status, location, range, expired) ==
    [kind |-> kind, status |-> status, location |-> location, range |-> range,
     expired |-> expired]
Answers(phase) ==
    { Answer("response", st, "", NoRange, FALSE) : st \in {200, 400, 500, 503} }
    \cup { Answer("response", 400, "", NoRange, TRUE) }
    \cup { Answer("timeout", 0, "", NoRange, FALSE), Answer("client_error", 0, "", NoRange, FALSE) }
    \cup (IF phase = "primary"
          THEN { Answer("response", 302, l, r, FALSE) : l \in Locations, r \in Ranges }
          ELSE {})

\* A retry on every failure of the server, listed in status_forcelist or not.
IsRetryEligible_AnyServerError(ans) ==
    \/ ans.kind = "timeout"
    \/ ans.kind = "response" /\ ans.status >= 500

\* Lines 133-139 and 143: the answers fetch_with_retries counts as a failed attempt.
IsRetryEligible(ans) ==
    \/ ans.kind = "timeout"
    \/ ans.kind = "response" /\ ans.status \in RetryStatuses

\* A backoff that does not grow with the attempt.
wait_time_Constant(backoff_factor, att) == backoff_factor

\* Line 146.
wait_time(backoff_factor, att) == backoff_factor * Pow2(att - 1)

\* A retry that sleeps but leaves the stream where the failed attempt left it.
Backoff_NoReset(att) ==
    /\ attempt' = att
    /\ sleeps' = Append(sleeps, wait_time(retry_strategy.backoff_factor, att))
    /\ resets' = resets
    /\ stream_pos' = "read"

\* Lines 144-148, after the att-th failed attempt when another one is left:
\* compute wait_time, data_adapter.reset(), sleep.
Backoff(att) ==
    /\ attempt' = att
    /\ sleeps' = Append(sleeps, wait_time(retry_strategy.backoff_factor, att))
    /\ resets' = resets + 1
    /\ stream_pos' = "start"

AddTask(ev, length) == [ev EXCEPT !.total = @ + length, !.added = @ + 1]
FinishTask(ev) == [ev EXCEPT !.finished = @ + 1]

UploadInit ==
    /\ \E t \in 0..MaxRetries, b \in 0..MaxBackoff :
          retry_strategy = [total |-> t, backoff_factor |-> b]
    /\ content_length \in 1..MaxLength
    /\ up_pc = "idle"
    /\ attempt = 0
    /\ request_log = <<>>
    /\ sleeps = <<>>
    /\ resets = 0
    /\ stream_pos = "start"
    /\ response = <<>>
    /\ sync_event = [total |-> 0, added |-> 0, finished |-> 0]
    /\ restarts = 0
    /\ up_result = <<>>
    /\ put_file_result = <<>>

\* Lines 153-171: put_file_async is entered (put_file runs it on a new event
\* loop, lines 234-238); the first fetch_with_retries starts with attempt = 0.
Enter(ev) ==
    /\ sync_event' = AddTask(ev, content_length)
    /\ attempt' = 0
    /\ request_log' = <<>>
    /\ sleeps' = <<>>
    /\ response' = <<>>
    /\ up_pc' = "primary"

PutFileAsync ==
    /\ up_pc = "idle"
    /\ Enter(sync_event)
    /\ UNCHANGED <<retry_strategy, content_length, resets, stream_pos, restarts, up_result,
                   put_file_result>>
    /\ UNCHANGED notUpload

\* put_file_async returns result ("True", "False"), or raises it (the name of
\* an exception).
Return(result) ==
    /\ up_pc' = "returned"
    /\ up_result' = <<result>>

\* Line 125 with retry_strategy.total = 0: the loop body never runs,
\* fetch_with_retries returns None, and line 193 reads response.status.
NoAttempt ==
    /\ up_pc = "primary"
    /\ retry_strategy.total = 0
    /\ Return("AttributeError")
    /\ UNCHANGED <<retry_strategy, content_length, attempt, request_log, sleeps, resets,
                   stream_pos, response, sync_event, restarts, put_file_result>>
    /\ UNCHANGED notUpload

\* The PUT to the signed url goes out with the headers of the first PUT only.
RequestRange_Dropped == NoRange

\* The request the next attempt sends: lines 176 and 180-186 for the primary
\* endpoint, lines 202 and 206-210 for the signed url of the redirect.
RequestUrl == IF up_pc = "primary" THEN PrimaryUrl ELSE response.location
RequestRange == IF up_pc = "primary" THEN NoRange ELSE response.range

\* Lines 189-191 and 212-214: the bare except around fetch_with_retries logs
\* the traceback and returns False, whatever was raised.
Caught_Reraises(exc) == exc

Caught(exc) == "False"

\* The exception fetch_with_retries lets out for the answer ans: line 150
\* re-raises what line 143 caught, and any other client error is not caught.
Raised(ans) ==
    CASE ans.kind = "timeout" -> "TimeoutError"
      [] ans.kind = "client_error" -> "ClientError"
      [] OTHER -> "ClientResponseError"

\* The final response handled as response.raise_for_status() would.
Final_RaisesForStatus(ans, streamed, nresets) ==
    IF ans.status = 400 /\ ans.expired
    THEN /\ resets' = nresets + 1
         /\ stream_pos' = "start"
         /\ restarts' = restarts + 1
         /\ Enter(FinishTask(sync_event))
         /\ UNCHANGED up_result
    ELSE IF ans.status # 200
    THEN /\ Return("ClientResponseError")
         /\ resets' = nresets
         /\ stream_pos' = streamed
         /\ response' = ans
         /\ UNCHANGED <<attempt, sleeps, sync_event, restarts>>
    ELSE /\ Return("True")
         /\ sync_event' = FinishTask(sync_event)
         /\ resets' = nresets
         /\ stream_pos' = streamed
         /\ response' = ans
         /\ UNCHANGED <<attempt, sleeps, restarts>>

\* Lines 215-230: the final response.
Final(ans, streamed, nresets) ==
    IF ans.status = 400 /\ ans.expired
    THEN \* lines 216-221: reset, finish the task, and call put_file_async again
         /\ resets' = nresets + 1
         /\ stream_pos' = "start"
         /\ restarts' = restarts + 1
         /\ Enter(FinishTask(sync_event))
         /\ UNCHANGED up_result
    ELSE IF ans.status # 200
    THEN /\ Return("False")
         /\ resets' = nresets
         /\ stream_pos' = streamed
         /\ response' = ans
         /\ UNCHANGED <<attempt, sleeps, sync_event, restarts>>
    ELSE /\ Return("True")
         /\ sync_event' = FinishTask(sync_event)
         /\ resets' = nresets
         /\ stream_pos' = streamed
         /\ response' = ans
         /\ UNCHANGED <<attempt, sleeps, restarts>>

\* One attempt of fetch_with_retries (lines 125-150) and what put_file_async
\* does with its outcome up to the next request (lines 189-230).
Attempt ==
    /\ up_pc \in {"primary", "google"}
    /\ attempt < retry_strategy.total
    /\ \E ans \in Answers(up_pc) :
        /\ ans.expired => restarts < MaxRestarts
        /\ LET sent == Append(request_log,
                              [url |-> RequestUrl, range |-> RequestRange,
                               answer |-> ans, stream |-> stream_pos])
           IN
           IF IsRetryEligible(ans)
           THEN IF attempt + 1 < retry_strategy.total
                THEN \* lines 144-148: wait, rewind and go round the loop
                     /\ request_log' = sent
                     /\ Backoff(attempt + 1)
                     /\ UNCHANGED <<up_pc, response, sync_event, restarts, up_result>>
                ELSE \* line 150 raises, lines 189-191 or 212-214 return False
                     /\ request_log' = sent
                     /\ attempt' = attempt + 1
                     /\ stream_pos' = "read"
                     /\ Return(Caught(Raised(ans)))
                     /\ UNCHANGED <<sleeps, resets, response, sync_event, restarts>>
           ELSE IF ans.kind = "client_error"
           THEN \* not caught in fetch_with_retries; lines 189-191 or 212-214
                /\ request_log' = sent
                /\ stream_pos' = "read"
                /\ Return(Caught(Raised(ans)))
                /\ UNCHANGED <<attempt, sleeps, resets, response, sync_event, restarts>>
           ELSE IF up_pc = "primary" /\ ans.status = 302
           THEN \* lines 193-197: rewind, and the second fetch_with_retries starts
                /\ request_log' = sent
                /\ response' = ans
                /\ resets' = resets + 1
                /\ stream_pos' = "start"
                /\ attempt' = 0
                /\ up_pc' = "google"
                /\ UNCHANGED <<sleeps, sync_event, restarts, up_result>>
           ELSE IF ans.status = 400 /\ ans.expired
           THEN Final(ans, "read", resets)
           ELSE /\ request_log' = sent
                /\ Final(ans, "read", resets)
    /\ UNCHANGED <<retry_strategy, content_length, put_file_result>>
    /\ UNCHANGED notUpload

\* Lines 237-240: put_file drops what run_until_complete hands back and falls
\* off its end, so a put_file_async that returned leaves put_file returning
\* None; an exception of put_file_async passes through the finally.
put_file(result) == IF result \in {"True", "False"} THEN "None" ELSE result

\* Lines 238-240: put_file_async is over, the loop is closed, put_file returns.
PutFileReturns ==
    /\ up_pc = "returned"
    /\ up_pc' = "closed"
    /\ put_file_result' = << put_file(up_result[1]) >>
    /\ UNCHANGED <<retry_strategy, content_length, attempt, request_log, sleeps, resets,
                   stream_pos, response, sync_event, restarts, up_result>>
    /\ UNCHANGED notUpload

UploadNext == PutFileAsync \/ NoAttempt \/ Attempt \/ PutFileReturns

InitUpload == UploadInit /\ SyncInit /\ IndexParked /\ StoreParked /\ LoaderParked
SpecUpload == InitUpload /\ [][UploadNext]_vars

----------------------------------------------------------------------------
(* Properties of the upload pipeline *)

Returned == up_pc = "returned"
Failed503(n) ==
    request_log[n].answer.kind = "response" /\ request_log[n].answer.status \in RetryStatuses
Answered(n, status) ==
    request_log[n].answer.kind = "response" /\ request_log[n].answer.status = status

\* C9: when the first two PUT attempts are answered with a retry-eligible
\* status and the third with 200, under a positive backoff factor, the upload
\* returns True after exactly three attempts, and the wait before the third
\* attempt is longer than the wait before the second.
C9_TwoRetriesThenSuccess ==
    (/\ Returned
     /\ Len(request_log) >= 3
     /\ Failed503(1) /\ Failed503(2) /\ Answered(3, 200)
     /\ retry_strategy.backoff_factor > 0) =>
        /\ up_result = <<"True">>
        /\ Len(request_log) = 3
        /\ Len(sleeps) = 2
        /\ sleeps[1] < sleeps[2]

\* An upload that returned after the answers 503, 503, 200.
C9_Witness ==
    /\ Returned
    /\ Len(request_log) = 3
    /\ Failed503(1) /\ Failed503(2) /\ Answered(3, 200)
    /\ retry_strategy.backoff_factor > 0
    /\ up_result = <<"True">>

\* C10: when the primary endpoint answers the PUT with 302 and the redirect
\* target answers 200, the upload rewinds its data stream exactly once, sends
\* its second request to the url of the redirect's location header with the
\* x-goog-content-length-range header of the redirect, and returns True.
C10_RedirectFollowedOnce ==
    (/\ Returned
     /\ restarts = 0
     /\ Len(request_log) = 2
     /\ Answered(1, 302) /\ Answered(2, 200)) =>
        /\ resets = 1
        /\ request_log[2].url = request_log[1].answer.location
        /\ request_log[2].range = request_log[1].answer.range
        /\ request_log[2].stream = "start"
        /\ up_result = <<"True">>

\* An upload that returned after the answers 302, 200.
C10_Witness ==
    /\ Returned
    /\ restarts = 0
    /\ Len(request_log) = 2
    /\ Answered(1, 302) /\ Answered(2, 200)
    /\ request_log[2].url \in Locations
    /\ up_result = <<"True">>

\* The answer to the last request the upload sent.
LastAnswer == request_log[Len(request_log)].answer

\* Every request of the last fetch_with_retries failed with a retry-eligible
\* status or a timeout, and the retry budget is spent.
RetriesExhausted ==
    /\ Returned
    /\ request_log # <<>>
    /\ attempt = retry_strategy.total
    /\ \A n \in (Len(request_log) - attempt + 1)..Len(request_log) :
          IsRetryEligible(request_log[n].answer)

\* C11: when the upload has returned and the last response has a status
\* other than 200 (and is not the 400 of an expired token), put_file_async
\* returned False: it raised nothing.
C11_NonOkFinalStatusReturnsFalse ==
    (/\ Returned
     /\ request_log # <<>>
     /\ LastAnswer.kind = "response"
     /\ LastAnswer.status # 200
     /\ ~(LastAnswer.status = 400 /\ LastAnswer.expired)) =>
        up_result = <<"False">>

\* An upload whose signed url answered 500 after the redirect, and one that
\* ended in a plain 400: both returned False.
C11_Witness ==
    /\ Returned
    /\ Len(request_log) = 2
    /\ Answered(1, 302)
    /\ Answered(2, 500) \/ (Answered(2, 400) /\ ~LastAnswer.expired)
    /\ up_result = <<"False">>

\* C12: when every attempt failed with a retry-eligible status or a timeout
\* and the retry budget is spent, put_file_async raises the transport error
\* to its caller.
C12_ExhaustedRetriesRaise ==
    RetriesExhausted => up_result = <<Raised(LastAnswer)>>

\* C12 as amended: when every attempt failed with a retry-eligible status or
\* a timeout and the retry budget is spent, the transport error raised by
\* fetch_with_retries is caught in put_file_async, which returns False.
C12_ExhaustedRetriesReturnFalse ==
    RetriesExhausted => up_result = <<"False">>

\* An upload that spent a budget of three on a timeout and two 503 answers.
C12_Witness ==
    /\ RetriesExhausted
    /\ retry_strategy.total = 3
    /\ Len(request_log) = 3
    /\ \E n \in 1..3 : request_log[n].answer.kind = "timeout"
    /\ \E n \in 1..3 : Failed503(n)
    /\ up_result = <<"False">>

\* C19: put_file returns true when the upload succeeded and false when it
\* failed, that is, what put_file_async returned.
C19_PutFileReportsOutcome ==
    (put_file_result # <<>> /\ up_result[1] \in {"True", "False"}) =>
        put_file_result = up_result

\* C21: the whole-upload restarts that expired-token answers cause are
\* bounded by the retry policy: one upload call never restarts more often
\* than retry_strategy.total.
C21_RestartsBoundedByRetryPolicy == restarts <= retry_strategy.total

\* The requests of one upload go to the primary url first and, after a 302,
\* to the signed url: the first call of fetch_with_retries sent the requests
\* up to the 302, the second call the ones after it.
SameFetch(n, m) == request_log[n].url = request_log[m].url

\* The n-th request is the k-th attempt of its call of fetch_with_retries.
RECURSIVE AttemptNo(_)
AttemptNo(n) == IF n > 1 /\ SameFetch(n - 1, n) THEN AttemptNo(n - 1) + 1 ELSE 1

\* The n-th request was followed by another attempt of the same call.
Repeated(n) == n < Len(request_log) /\ SameFetch(n, n + 1)

\* The place in sleeps of the wait that followed the n-th request: every
\* request before it was followed by a wait, but for the one answered 302.
SleepNo(n) == IF request_log[n].url = PrimaryUrl THEN n ELSE n - 1

\* C29: one call of fetch_with_retries sends at most retry_strategy.total
\* requests; a request is followed by another attempt only when it timed out
\* or was answered with a status of the retry set, so a response with any
\* other status ends the call; and the wait after the k-th failed attempt is
\* backoff_factor * 2^(k-1).  The log grows by one request per step, so the
\* property is stated of the latest request and of the one it follows.
C29_BoundedRetriesWithBackoff ==
    LET last == Len(request_log)
        n == last - 1
    IN  /\ last >= 1 => AttemptNo(last) <= retry_strategy.total
        /\ (last >= 2 /\ Repeated(n)) =>
              /\ request_log[n].answer.kind = "timeout" \/ Failed503(n)
              /\ SleepNo(n) <= Len(sleeps)
              /\ sleeps[SleepNo(n)]
                    = retry_strategy.backoff_factor * Pow2(AttemptNo(n) - 1)

\* A call of fetch_with_retries that timed out, was answered 503 and then
\* 500: three attempts, two growing waits, and the 500 is returned.
C29_Witness ==
    /\ Returned
    /\ Len(request_log) >= 3
    /\ LET n == Len(request_log)
       IN  /\ AttemptNo(n) = 3
           /\ request_log[n - 2].answer.kind = "timeout"
           /\ Failed503(n - 1)
           /\ Answered(n, 500)
           /\ SleepNo(n - 1) = Len(sleeps)
    /\ retry_strategy.backoff_factor > 0
    /\ up_result = <<"False">>

\* C30: every request of an upload is sent with the body stream at its
\* start: the stream is rewound after a failed attempt that is retried, after
\* the redirect and after an expired-token answer, before the next request.
C30_StreamRewoundBeforeEveryAttempt ==
    /\ \A n \in 1..Len(request_log) : request_log[n].stream = "start"
    /\ up_pc \in {"primary", "google"} => stream_pos = "start"
    /\ resets >= Len(request_log) - 1 + restarts

\* An upload restarted after an expired token, whose restart was retried
\* and redirected: three rewinds precede its last request.
C30_Witness ==
    /\ Returned
    /\ restarts = 1
    /\ Len(request_log) = 3
    /\ Failed503(1)
    /\ Answered(2, 302)
    /\ Answered(3, 200)
    /\ resets = 3
    /\ \A n \in 1..3 : request_log[n].stream = "start"

\* C31: one upload call adds the length of its data to sync_event.total
\* once, whatever retries, redirects and restarts happen inside the call.
C31_LengthAddedOnce ==
    up_pc # "idle" => sync_event.total = content_length

\* C32: when put_file_async has returned True or False, it has finished
\* every task it added to sync_event.
C32_EveryTaskFinished ==
    (Returned /\ up_result[1] \in {"True", "False"}) =>
        sync_event.finished = sync_event.added

----------------------------------------------------------------------------
(* The caller of sync: the Loader screen, src/gui/screens/loader.py *)

\* The sync threads one behaviour starts, and the progress calls one run makes.
MaxThreads == 3
MaxSyncFiles == 2

\* len(Loader.TO_LOAD)
TO_LOAD_LEN == 9

\* A quotient as post_loop and progress read it: 0, 1, or something else
\* (ZeroDivisionError gives 0, lines 116-117).
Fraction(num, den) ==
    IF den = 0 \/ num = 0 THEN "zero"
    ELSE IF num = den THEN "one"
    ELSE "part"

\* Lines 61-67 and config.wait_for_everything_to_load: the Loader as
\* constructed, with its first frame ahead.  files_to_load is <<>> for None.
LoaderInit ==
    /\ \E w \in BOOLEAN :
          loader = [initialized |-> FALSE, hooked |-> FALSE, screen |-> "loader",
                    frame |-> "pre_loop", load_started |-> FALSE,
                    items_loaded |-> 0, files_loaded |-> 0, files_to_load |-> <<>>,
                    current_progress |-> "zero", last_progress |-> "below",
                    wait_for_everything_to_load |-> w]
    /\ sync_threads = <<>>

\* Lines 69-70: start_syncing starts a thread on get_documents, whatever the
\* threads started before are doing.
start_syncing == sync_threads' = Append(sync_threads, [pc |-> "started", done |-> 0])

\* Lines 140-144: the first frame starts the load thread and the first sync.
PreLoop ==
    /\ loader.screen = "loader"
    /\ loader.frame = "pre_loop"
    /\ IF ~loader.initialized
       THEN /\ start_syncing
            /\ loader' = [loader EXCEPT !.initialized = TRUE, !.load_started = TRUE,
                                        !.frame = "loop"]
       ELSE /\ loader' = [loader EXCEPT !.frame = "loop"]
            /\ UNCHANGED sync_threads
    /\ UNCHANGED notLoader

\* Lines 72-86: the load thread loads one more icon.
LoadItem ==
    /\ loader.load_started
    /\ loader.items_loaded < TO_LOAD_LEN
    /\ loader' = [loader EXCEPT !.items_loaded = @ + 1]
    /\ UNCHANGED sync_threads
    /\ UNCHANGED notLoader

\* Lines 101-121: progress().  The smoothing of last_progress is kept as
\* whether it has reached 1: it stays there while current_progress is 1, and
\* gets there, after some frames, only then.
LoaderProgress(l, settled) ==
    IF l.files_to_load = <<>> /\ l.wait_for_everything_to_load
          /\ l.current_progress = "zero"
    THEN l
    ELSE LET current ==
                 IF l.files_to_load \in {<<>>, <<0>>} \/ ~l.wait_for_everything_to_load
                 THEN Fraction(l.items_loaded, TO_LOAD_LEN)
                 ELSE Fraction(l.items_loaded + l.files_loaded,
                               TO_LOAD_LEN + l.files_to_load[1])
         IN  [l EXCEPT !.current_progress = current,
                       !.last_progress =
                           IF current = "one" /\ (l.last_progress = "one" \/ settled)
                           THEN "one" ELSE "below"]

\* Lines 123-128: loop() draws the bar.
Loop ==
    /\ loader.screen = "loader"
    /\ loader.frame = "loop"
    /\ \E settled \in BOOLEAN :
          loader' = [LoaderProgress(loader, settled) EXCEPT !.frame = "post_loop"]
    /\ UNCHANGED sync_threads
    /\ UNCHANGED notLoader

\* Lines 130-134: when the bar is full the main menu goes on top of the
\* Loader and the hook for the notifications is installed.
PostLoop ==
    /\ loader.screen = "loader"
    /\ loader.frame = "post_loop"
    /\ loader' = IF loader.current_progress = "one" /\ loader.last_progress = "one"
                 THEN [loader EXCEPT !.screen = "main_menu", !.hooked = TRUE,
                                     !.frame = "pre_loop"]
                 ELSE [loader EXCEPT !.frame = "pre_loop"]
    /\ UNCHANGED sync_threads
    /\ UNCHANGED notLoader

\* Lines 136-138: loader_hook receives a SyncCompleted event (an event of any
\* other class changes nothing).
LoaderHook ==
    /\ loader.hooked
    /\ Len(sync_threads) < MaxThreads
    /\ start_syncing
    /\ UNCHANGED loader
    /\ UNCHANGED notLoader

\* Lines 88-94: a sync thread enters api.get_documents.
ThreadBegin ==
    /\ \E t \in 1..Len(sync_threads) :
        /\ sync_threads[t].pc = "started"
        /\ sync_threads' = [sync_threads EXCEPT ![t].pc = "syncing"]
    /\ UNCHANGED loader
    /\ UNCHANGED notLoader

\* Lines 89-91: the run of a sync thread calls progress(loaded, to_load).
ThreadProgress ==
    /\ \E t \in 1..Len(sync_threads) :
        /\ sync_threads[t].pc = "syncing"
        /\ sync_threads[t].done < MaxSyncFiles
        /\ sync_threads' = [sync_threads EXCEPT ![t].done = @ + 1]
        /\ loader' = [loader EXCEPT !.files_loaded = sync_threads[t].done + 1,
                                    !.files_to_load = <<MaxSyncFiles>>]
    /\ UNCHANGED notLoader

\* Lines 94-95: api.get_documents returns and files_to_load is None again.
ThreadFinish ==
    /\ \E t \in 1..Len(sync_threads) :
        /\ sync_threads[t].pc = "syncing"
        /\ sync_threads[t].done = MaxSyncFiles
        /\ sync_threads' = [sync_threads EXCEPT ![t].pc = "finished"]
    /\ loader' = [loader EXCEPT !.files_to_load = <<>>]
    /\ UNCHANGED notLoader

LoaderNext ==
    \/ PreLoop
    \/ LoadItem
    \/ Loop
    \/ PostLoop
    \/ LoaderHook
    \/ ThreadBegin
    \/ ThreadProgress
    \/ ThreadFinish

InitLoader == LoaderInit /\ SyncInit /\ IndexParked /\ StoreParked /\ UploadParked
SpecLoader == InitLoader /\ [][LoaderNext]_vars

\* The sync runs in flight: the threads inside api.get_documents.
InFlight == { t \in 1..Len(sync_threads) : sync_threads[t].pc = "syncing" }

\* C20: the Loader never has two sync runs in flight at the same time.
C20_OneSyncInFlight == Cardinality(InFlight) <= 1

====
